---- MODULE Spec2Model ----
(***************************************************************************)
(* A model of zgo.at/zlog (log.go as of the Outputs/Since revision and     *)
(* output_std.go).  A Log is a Go struct passed by value; its slices       *)
(* (Modules, DebugModules, Traces) and maps (Data, sinceLog) are           *)
(* references into a heap that the copies share.  The model therefore      *)
(* keeps an explicit heap of backing arrays and of maps, and a small       *)
(* number of client variables ("registers") that hold Log values.          *)
(***************************************************************************)
EXTENDS Integers, Sequences, FiniteSets, TLC

\* ------------------------------------------------------------------------
\* Bounds of the exploration.

\* Number of calls the client program makes before its terminal call.
MaxSteps == 3

\* Latest reading of the clock, in clock units.
MaxClock == 3

\* Resolution of the clock: units per millisecond (more than one, so that
\* the truncation to whole milliseconds is visible).
TicksPerMs == 2

\* Longest list of sinks in Config.Outputs.
MaxOutputs == 3

\* Most Error calls a program makes on one entry before it goes on.
MaxErrors == 2

\* Client variables holding a Log value: the program builds its chain in
\* Base and keeps results it does not assign back in Other; NoReg is a
\* discarded result.  A concurrent program has one more: Third is the
\* local variable of its second unit of work (goroutine); the first
\* unit's is Other.
Base == "r1"
Other == "r2"
Third == "r3"
Regs == {Base, Other}
UnitRegs == {Base, Other, Third}
Units == {Other, Third}
NoReg == "_"

ModNames == {"a", "b"}
DebugArgs == {<<"a">>, <<"all">>}
TraceMsgs == {"t1", "t2"}
PrintMsgs == {"p"}
Labels == {"s1", "s2"}

\* ------------------------------------------------------------------------
\* Values.

\* Log levels.
LevelInfo == 0
LevelErr == 1
LevelDbg == 2
LevelTrace == 3

\* An error value is <<text>>; the nil error is the empty tuple.
NilErr == <<>>
ErrArgs == {NilErr, <<"e">>}

\* Field values (interface{}): the dynamic type and the value's text.
IntV(s) == [kind |-> "int", s |-> s]
StrV(s) == [kind |-> "string", s |-> s]
\* The (key, value) pairs given to Field and the map literals given to
\* Fields.
FieldArgs == {<<"k", IntV("3")>>, <<"k", StrV("v")>>, <<"k1", IntV("3")>>}
FieldLits == {[x \in {"k", "k1"} |-> IF x = "k" THEN StrV("v") ELSE IntV("2")]}


\* The nil slice; a slice is (backing array, len, cap), arr = 0 for nil.
NilSlice == [arr |-> 0, len |-> 0, cap |-> 0]

\* The nil map reference.
NilMap == 0

\* The empty map value.
EmptyF == [k \in {} |-> IntV("0")]

\* A context.Context is <<name>>; the nil context is the empty tuple.
NilCtx == <<>>
Ctxs == {<<"ctx">>}

\* Log{}: the zero value of the struct.
ZeroLog ==
  [Ctx |-> NilCtx, Msg |-> "", Err |-> NilErr, Level |-> LevelInfo,
   Modules |-> NilSlice, Data |-> NilMap, DebugModules |-> NilSlice,
   Traces |-> NilSlice, since |-> 0, sinceLog |-> NilMap]

VARIABLES
  regs,         \* client variables: register -> Log
  arrs,         \* heap: backing arrays of []string, indexed from 1
  maps,         \* heap: maps (F), indexed from 1
  ConfigDebug,  \* Config.Debug
  ConfigOutputs, \* Config.Outputs: the sinks, by name
  clock,        \* last reading of time.Now()
  out,          \* what the sinks wrote during the last call
  errw,         \* what Since wrote to the stderr writer during the last call
  ev,           \* the last call: operation, operand, result, snapshots
  gh,           \* per register: what the calls of its chain asked for
  steps

vars == <<regs, arrs, maps, ConfigDebug, ConfigOutputs, clock, out, errw, ev, gh, steps>>

\* ------------------------------------------------------------------------
\* Slices and maps.

\* The elements s[0:len] of a slice in heap A.
Elems(A, s) == [i \in 1..s.len |-> A[s.arr][i]]

\* The contents of a map reference in heap M (ranging over nil is empty).
MapOf(M, ref) == IF ref = NilMap THEN EmptyF ELSE M[ref]

\* f overridden by g: for k, v := range g { f[k] = v }.
Merge(f, g) ==
  [k \in (DOMAIN f) \cup (DOMAIN g) |-> IF k \in DOMAIN g THEN g[k] ELSE f[k]]

\* Capacity chosen by the runtime when append has to grow (growslice for
\* small slices: at least the needed length, otherwise double).
GrowCap(oldcap, newlen) == IF newlen > 2 * oldcap THEN newlen ELSE 2 * oldcap

\* append(s, xs...): writes in place when the capacity allows it, and
\* allocates a copy otherwise.
GoAppend(A, s, xs) ==
  LET n == s.len + Len(xs) IN
  IF Len(xs) = 0 THEN [s |-> s, A |-> A]
  ELSE IF n <= s.cap
  THEN [s |-> [s EXCEPT !.len = n],
        A |-> [A EXCEPT ![s.arr] =
                 [i \in 1..s.cap |->
                    IF i > s.len /\ i <= n THEN xs[i - s.len] ELSE @[i]]]]
  ELSE LET c == GrowCap(s.cap, n)
           new == [i \in 1..c |->
                     IF i <= s.len THEN A[s.arr][i]
                     ELSE IF i <= n THEN xs[i - s.len] ELSE ""]
       IN [s |-> [arr |-> Len(A) + 1, len |-> n, cap |-> c],
           A |-> Append(A, new)]

\* A slice literal / variadic argument list: a fresh array, len = cap.
SliceLit(A, xs) ==
  IF Len(xs) = 0 THEN [s |-> NilSlice, A |-> A]
  ELSE [s |-> [arr |-> Len(A) + 1, len |-> Len(xs), cap |-> Len(xs)],
        A |-> Append(A, xs)]

\* What a Log value denotes in the heaps A, M: its fields with every
\* reference replaced by the contents it refers to.
View(A, M, l) ==
  [Ctx |-> l.Ctx, Msg |-> l.Msg, Err |-> l.Err, Level |-> l.Level,
   Modules |-> Elems(A, l.Modules), Data |-> MapOf(M, l.Data),
   DebugModules |-> Elems(A, l.DebugModules), Traces |-> Elems(A, l.Traces),
   since |-> l.since, sinceLog |-> MapOf(M, l.sinceLog)]

\* ------------------------------------------------------------------------
\* The debug gate.

\* Mutant: the wildcard "all" is not recognised.
RECURSIVE matchDebug_noAll(_, _, _)
matchDebug_noAll(ds, m, i) ==
  IF i > Len(ds) THEN FALSE
  ELSE IF ds[i] = m THEN TRUE
  ELSE matchDebug_noAll(ds, m, i + 1)

\* for _, d := range ds { if d == "all" || d == m { return true } }
RECURSIVE matchDebug(_, _, _)
matchDebug(ds, m, i) ==
  IF i > Len(ds) THEN FALSE
  ELSE IF ds[i] = "all" \/ ds[i] = m THEN TRUE
  ELSE matchDebug(ds, m, i + 1)

\* Mutant: the global list is not consulted.
RECURSIVE hasDebugFrom_ownOnly(_, _, _, _)
hasDebugFrom_ownOnly(mods, global, own, i) ==
  IF i > Len(mods) THEN FALSE
  ELSE IF matchDebug(own, mods[i], 1) THEN TRUE
  ELSE hasDebugFrom_ownOnly(mods, global, own, i + 1)

\* The loop of hasDebug over l.Modules, from module i on: for each module,
\* first the global list, then the entry's own list.
RECURSIVE hasDebugFrom(_, _, _, _)
hasDebugFrom(mods, global, own, i) ==
  IF i > Len(mods) THEN FALSE
  ELSE IF matchDebug(global, mods[i], 1) THEN TRUE
  ELSE IF matchDebug(own, mods[i], 1) THEN TRUE
  ELSE hasDebugFrom(mods, global, own, i + 1)

hasDebug(A, l) ==
  hasDebugFrom(Elems(A, l.Modules), ConfigDebug, Elems(A, l.DebugModules), 1)

\* ------------------------------------------------------------------------
\* The formatter (output_std.go).

enableColors == TRUE

\* Two spaces on a coloured background; ESC stands for the byte 0x1b.
colors(level) ==
  CASE level = LevelInfo -> "ESC[48;5;12m  ESC[0m "
    [] level = LevelErr -> "ESC[48;5;9m  ESC[0m "
    [] level = LevelDbg -> "ESC[48;5;247m  ESC[0m "
    [] level = LevelTrace -> "ESC[48;5;247m  ESC[0m "

messages(level) ==
  CASE level = LevelInfo -> "INFO: "
    [] level = LevelErr -> "ERROR: "
    [] level = LevelDbg -> "DEBUG: "
    [] level = LevelTrace -> "TRACE: "

\* now().Format(Config.FmtTime): the reading of the clock as text and a space.
FmtTime(t) == "T" \o ToString(t) \o " "

\* strings.Join(xs, sep), from element i on.
RECURSIVE JoinFrom(_, _, _)
JoinFrom(xs, sep, i) ==
  IF i > Len(xs) THEN ""
  ELSE IF i = Len(xs) THEN xs[i]
  ELSE xs[i] \o sep \o JoinFrom(xs, sep, i + 1)

Join(xs, sep) == JoinFrom(xs, sep, 1)

\* The bytes of the strings that occur as keys and values of fields.
Bytes(s) ==
  CASE s = "k" -> <<107>>
    [] s = "k1" -> <<107, 49>>
    [] s = "s1" -> <<115, 49>>
    [] s = "s2" -> <<115, 50>>
    [] s = "a" -> <<97>>
    [] s = "b" -> <<98>>
    [] s = "v" -> <<118>>
    [] s = "0" -> <<48>>
    [] s = "1" -> <<49>>
    [] s = "2" -> <<50>>
    [] s = "3" -> <<51>>
    [] s = "4" -> <<52>>
    [] s = "0ms" -> <<48, 109, 115>>
    [] s = "1ms" -> <<49, 109, 115>>
    [] s = "2ms" -> <<50, 109, 115>>
    [] s = "=" -> <<61>>
    [] s = "q" -> <<34>>
    [] s = "http_method" -> <<104, 116, 116, 112, 95, 109, 101, 116, 104, 111, 100>>
    [] s = "http_url" -> <<104, 116, 116, 112, 95, 117, 114, 108>>
    [] s = "http_form" -> <<104, 116, 116, 112, 95, 102, 111, 114, 109>>
    [] s = "http_host" -> <<104, 116, 116, 112, 95, 104, 111, 115, 116>>
    [] s = "http_user_agent" -> <<104, 116, 116, 112, 95, 117, 115, 101, 114, 95, 97, 103, 101, 110, 116>>
    [] s = "PUT" -> <<80, 85, 84>>
    [] s = "/path?k=v&a=b" -> <<47, 112, 97, 116, 104, 63, 107, 61, 118, 38, 97, 61, 98>>
    [] s = "x" -> <<120>>
    [] s = "" -> <<>>

\* One rendered field "k=v": integers with %d, strings with %q; the text
\* and its bytes (the bytes are what sort.Strings compares).
fieldItem(k, v) ==
  IF v.kind = "int"
  THEN [text |-> k \o "=" \o v.s,
        bytes |-> Bytes(k) \o Bytes("=") \o Bytes(v.s)]
  ELSE [text |-> k \o "=\"" \o v.s \o "\"",
        bytes |-> Bytes(k) \o Bytes("=") \o Bytes("q") \o Bytes(v.s) \o Bytes("q")]

\* Byte-wise order of Go strings: x < y.
RECURSIVE bytesLess(_, _)
bytesLess(x, y) ==
  IF Len(y) = 0 THEN FALSE
  ELSE IF Len(x) = 0 THEN TRUE
  ELSE IF Head(x) # Head(y) THEN Head(x) < Head(y)
  ELSE bytesLess(Tail(x), Tail(y))

\* sort.Strings over a set of rendered fields: ascending by bytes.
RECURSIVE sortStrings(_)
sortStrings(items) ==
  IF items = {} THEN <<>>
  ELSE LET least == CHOOSE x \in items :
                      \A y \in items \ {x} : bytesLess(x.bytes, y.bytes)
       IN <<least.text>> \o sortStrings(items \ {least})

\* The main line of format: colour, time, module path, level, the error
\* when there is one and the message otherwise, then the sorted fields.
formatLine(v, t) ==
  (IF enableColors THEN colors(v.Level) ELSE "")
  \o FmtTime(t)
  \o (IF Len(v.Modules) > 0 THEN Join(v.Modules, ": ") \o ": " ELSE "")
  \o messages(v.Level)
  \o (IF v.Err # NilErr THEN v.Err[1] ELSE v.Msg)
  \o (IF DOMAIN v.Data # {}
      THEN " {" \o Join(sortStrings({fieldItem(k, v.Data[k]) : k \in DOMAIN v.Data}), " ") \o "}"
      ELSE "")

\* Mutant: the buffered traces are written last to first.
RECURSIVE tracePrefix_reversed(_, _)
tracePrefix_reversed(ts, i) ==
  IF i > Len(ts) THEN "" ELSE tracePrefix_reversed(ts, i + 1) \o ts[i] \o "\n"

\* The trace lines that format writes before the main line: every buffered
\* trace followed by a newline, on Error level only.
RECURSIVE tracePrefix(_, _)
tracePrefix(ts, i) ==
  IF i > Len(ts) THEN "" ELSE ts[i] \o "\n" \o tracePrefix(ts, i + 1)

\* Mutant: the buffered traces are written at every level.
format_allLevels(v, t) == tracePrefix(v.Traces, 1) \o formatLine(v, t)

\* format(l) for the entry that v denotes, at clock reading t.
format(v, t) ==
  (IF v.Level = LevelErr THEN tracePrefix(v.Traces, 1) ELSE "")
  \o formatLine(v, t)

\* Mutant: the default sink writes every entry to stdout.
output_allStdout(v, t) == [stream |-> "stdout", text |-> format(v, t), entry |-> v]

\* output(l): the default sink; one write to stderr for errors and to
\* stdout for everything else.
output(v, t) ==
  [stream |-> IF v.Level = LevelErr THEN "stderr" ELSE "stdout",
   text |-> format(v, t), entry |-> v]

\* The sinks a program registers besides output: the two of the
\* documentation of Config.Outputs, which return at once for the levels they
\* do not process and send the entry to an external service otherwise, and
\* the one of the tests, which writes Config.Format(l) to a buffer.
Sinks == {"output", "errorsOnly", "nonErrors", "buffer"}

errorsOnly(v, t) ==
  IF v.Level # LevelErr THEN [stream |-> "none", text |-> "", entry |-> v]
  ELSE [stream |-> "notification service", text |-> "", entry |-> v]

nonErrors(v, t) ==
  IF v.Level = LevelErr THEN [stream |-> "none", text |-> "", entry |-> v]
  ELSE [stream |-> "logging service", text |-> "", entry |-> v]

buffer(v, t) == [stream |-> "buf", text |-> format(v, t), entry |-> v]

\* o(l) for the sink named o: what it wrote and the entry it was given.
invoke(o, v, t) ==
  LET w == CASE o = "output" -> output(v, t)
             [] o = "errorsOnly" -> errorsOnly(v, t)
             [] o = "nonErrors" -> nonErrors(v, t)
             [] o = "buffer" -> buffer(v, t)
  IN [sink |-> o, stream |-> w.stream, text |-> w.text, entry |-> w.entry]

\* Mutant: the loop stops after a sink that returned early.
RECURSIVE RunOutputsFrom_shortCircuit(_, _, _, _)
RunOutputsFrom_shortCircuit(outputs, v, t, i) ==
  IF i > Len(outputs) THEN <<>>
  ELSE LET w == invoke(outputs[i], v, t)
       IN IF w.stream = "none" THEN <<w>>
          ELSE <<w>> \o RunOutputsFrom_shortCircuit(outputs, v, t, i + 1)

\* for _, o := range c.Outputs { o(l) }, from sink i on.
RECURSIVE RunOutputsFrom(_, _, _, _)
RunOutputsFrom(outputs, v, t, i) ==
  IF i > Len(outputs) THEN <<>>
  ELSE <<invoke(outputs[i], v, t)>> \o RunOutputsFrom(outputs, v, t, i + 1)

\* Config.RunOutputs(l): every sink of Config.Outputs in turn.
RunOutputs(A, M, l, t) == RunOutputsFrom(ConfigOutputs, View(A, M, l), t, 1)

\* ------------------------------------------------------------------------
\* The operations of log.go on a Log value l in the heaps A (arrays) and M
\* (maps).  Each returns the Log it returns and the heaps it leaves.

\* fmt.Sprint(v) of one string, and fmt.Sprintf(f + "%s", v).
Sprint(v) == v
Sprintf(f, v) == f \o v

\* Mutant: Module leaves the anchor of Since unset.
Module_noAnchor(A, m, n) ==
  LET lit == SliceLit(A, <<m>>)
  IN [l |-> [ZeroLog EXCEPT !.Modules = lit.s], A |-> lit.A]

\* func Module(m string) Log
Module(A, m, n) ==
  LET lit == SliceLit(A, <<m>>)
  IN [l |-> [ZeroLog EXCEPT !.Modules = lit.s, !.since = n], A |-> lit.A]

\* func SetDebug(m ...string) Log
SetDebug(A, ms) ==
  LET lit == SliceLit(A, ms)
  IN [l |-> [ZeroLog EXCEPT !.DebugModules = lit.s], A |-> lit.A]

\* Mutant: the traces are kept.
Log_ResetTrace_keep(l) == l

\* func (l Log) ResetTrace() Log
Log_ResetTrace(l) == [l EXCEPT !.Traces = NilSlice]

\* func (l Log) Context(ctx context.Context): the assignment is to the
\* method's own copy of l, and nothing is returned; local is that copy as
\* the method leaves it.
Log_Context(l, ctx) == [local |-> [l EXCEPT !.Ctx = ctx]]

\* func (l Log) SetDebug(m ...string) Log
Log_SetDebug(A, l, ms) ==
  LET r == GoAppend(A, l.DebugModules, ms)
  IN [l |-> [l EXCEPT !.DebugModules = r.s], A |-> r.A]

\* Mutant: the name is put before the names the entry has.
Log_Module_prepend(A, l, m, n) ==
  LET lit == SliceLit(A, <<m>> \o Elems(A, l.Modules))
  IN [l |-> [l EXCEPT !.Modules = lit.s, !.since = n], A |-> lit.A]

\* func (l Log) Module(m string) Log
Log_Module(A, l, m, n) ==
  LET r == GoAppend(A, l.Modules, <<m>>)
  IN [l |-> [l EXCEPT !.Modules = r.s, !.since = n], A |-> r.A]

\* Mutant: FieldsSince returns the entry as it is.
Log_FieldsSince_none(M, l) == [l |-> l, M |-> M]

\* Mutant: the given map replaces the fields.
Log_Fields_replace(M, l, f) == [l |-> [l EXCEPT !.Data = f], M |-> M]

\* func (l Log) Fields(f F) Log, f a map reference: a nil l.Data takes f
\* itself; otherwise the pairs of f are written into the map of l.Data.
Log_Fields(M, l, f) ==
  IF l.Data = NilMap
  THEN [l |-> [l EXCEPT !.Data = f], M |-> M]
  ELSE [l |-> l, M |-> [M EXCEPT ![l.Data] = Merge(@, MapOf(M, f))]]

\* The map literal F{...} with contents c: a fresh map.
MapLit(M, c) == [ref |-> Len(M) + 1, M |-> Append(M, c)]

\* func (l Log) Field(k string, v interface{}) Log
Log_Field(M, l, k, v) ==
  LET lit == MapLit(M, [x \in {k} |-> v])
  IN Log_Fields(lit.M, l, lit.ref)

\* func Field(k string, v interface{}) Log
Field(M, k, v) ==
  LET lit == MapLit(M, [x \in {k} |-> v])
  IN [l |-> [ZeroLog EXCEPT !.Data = lit.ref], M |-> lit.M]

\* func Fields(f F) Log, f a map reference
Fields(f) == [ZeroLog EXCEPT !.Data = f]

\* A *http.Request: nil, or the method, URL, encoded form, host and user
\* agent that FieldsRequest reads from it.
NilRequest == <<>>
Requests ==
  {NilRequest,
   [Method |-> "PUT", URL |-> "/path?k=v&a=b", Form |-> "", Host |-> "", UserAgent |-> "x"]}

\* Mutant: a nil request gives the five fields with empty values.
Log_FieldsRequest_noCheck(M, l, r) ==
  LET q == IF r = NilRequest
           THEN [Method |-> "", URL |-> "", Form |-> "", Host |-> "", UserAgent |-> ""]
           ELSE r
      lit == MapLit(M, [k \in {"http_method", "http_url", "http_form", "http_host",
                                "http_user_agent"} |->
                          StrV(CASE k = "http_method" -> q.Method
                                 [] k = "http_url" -> q.URL
                                 [] k = "http_form" -> q.Form
                                 [] k = "http_host" -> q.Host
                                 [] k = "http_user_agent" -> q.UserAgent)])
      f == Log_Fields(lit.M, l, lit.ref)
  IN [panic |-> "", l |-> f.l, M |-> f.M]

\* func (l Log) FieldsRequest(r *http.Request) Log: panics on a nil request
\* (panic holds the value; "" when it returns), and adds the five fields to
\* the entry otherwise.
Log_FieldsRequest(M, l, r) ==
  IF r = NilRequest
  THEN [panic |-> "zlog.FieldsRequest: *http.Request is nil", l |-> l, M |-> M]
  ELSE LET lit == MapLit(M, [k \in {"http_method", "http_url", "http_form", "http_host",
                                     "http_user_agent"} |->
                               StrV(CASE k = "http_method" -> r.Method
                                      [] k = "http_url" -> r.URL
                                      [] k = "http_form" -> r.Form
                                      [] k = "http_host" -> r.Host
                                      [] k = "http_user_agent" -> r.UserAgent)])
           f == Log_Fields(lit.M, l, lit.ref)
       IN [panic |-> "", l |-> f.l, M |-> f.M]

\* func FieldsRequest(r *http.Request) Log
FieldsRequest(M, r) == Log_FieldsRequest(M, ZeroLog, r)

\* func (l Log) FieldsSince() Log
Log_FieldsSince(M, l) == Log_Fields(M, l, l.sinceLog)

\* func (l Log) Print(v ...interface{}) and Printf: what the sinks write.
Log_Print(A, M, l, msg, n) ==
  RunOutputs(A, M, [l EXCEPT !.Msg = msg, !.Level = LevelInfo], n)

\* Mutant: Error dispatches the entry without its traces.
Log_Error_noTraces(A, M, l, err, n) ==
  RunOutputs(A, M, [l EXCEPT !.Err = err, !.Level = LevelErr, !.Traces = NilSlice], n)

\* func (l Log) Error(err error) and Errorf.
Log_Error(A, M, l, err, n) ==
  RunOutputs(A, M, [l EXCEPT !.Err = err, !.Level = LevelErr], n)

\* Mutant: the debug gate is not consulted.
Log_Debug_ungated(A, M, l, msg, n) ==
  RunOutputs(A, M, [l EXCEPT !.Msg = msg, !.Level = LevelDbg], n)

\* func (l Log) Debug(v ...interface{}) and Debugf.
Log_Debug(A, M, l, msg, n) ==
  IF ~hasDebug(A, l) THEN <<>>
  ELSE RunOutputs(A, M, [l EXCEPT !.Msg = msg, !.Level = LevelDbg], n)

\* Mutant: a trace that is buffered is dispatched as well.
Log_Trace_both(A, M, l, msg, n) ==
  LET l1 == [l EXCEPT !.Msg = msg, !.Level = LevelTrace]
      r == GoAppend(A, l1.Traces, <<format(View(A, M, l1), n)>>)
  IN IF hasDebug(A, l1)
     THEN [l |-> l1, A |-> A, out |-> RunOutputs(A, M, l1, n)]
     ELSE [l |-> [l1 EXCEPT !.Traces = r.s], A |-> r.A,
           out |-> RunOutputs(A, M, l1, n)]

\* func (l Log) Trace(v ...interface{}) Log and Tracef.
Log_Trace(A, M, l, msg, n) ==
  LET l1 == [l EXCEPT !.Msg = msg, !.Level = LevelTrace] IN
  IF hasDebug(A, l1)
  THEN [l |-> l1, A |-> A, out |-> RunOutputs(A, M, l1, n)]
  ELSE LET r == GoAppend(A, l1.Traces, <<format(View(A, M, l1), n)>>)
       IN [l |-> [l1 EXCEPT !.Traces = r.s], A |-> r.A, out |-> <<>>]

\* The line Since writes to stderr: "  %-16s %5dms  %s\n".
sinceLine(mods, s, msg) ==
  [path |-> Join(mods, ":"), ms |-> s, msg |-> msg]

\* Mutant: Since records the duration only when the entry is in debug mode.
Log_Since_debugOnly(A, M, l, msg, n, n2) ==
  LET since0 == IF l.since = 0 THEN n ELSE l.since
      s == (n2 - since0) \div TicksPerMs
      lit == IF l.sinceLog = NilMap THEN MapLit(M, EmptyF)
             ELSE [ref |-> l.sinceLog, M |-> M]
      M2 == [lit.M EXCEPT ![lit.ref] =
               Merge(@, [x \in {msg} |-> StrV(ToString(s) \o "ms")])]
  IN IF hasDebug(A, l)
     THEN [l |-> [l EXCEPT !.sinceLog = lit.ref, !.since = n], M |-> M2,
           errw |-> <<sinceLine(Elems(A, l.Modules), s, msg)>>]
     ELSE [l |-> [l EXCEPT !.since = n], M |-> M, errw |-> <<>>]

\* Mutant: Since keeps the anchor it found.
Log_Since_keepsAnchor(A, M, l, msg, n, n2) ==
  LET since0 == IF l.since = 0 THEN n ELSE l.since
      s == (n2 - since0) \div TicksPerMs
      lit == IF l.sinceLog = NilMap THEN MapLit(M, EmptyF)
             ELSE [ref |-> l.sinceLog, M |-> M]
      M2 == [lit.M EXCEPT ![lit.ref] =
               Merge(@, [x \in {msg} |-> StrV(ToString(s) \o "ms")])]
  IN [l |-> [l EXCEPT !.sinceLog = lit.ref, !.since = since0],
      M |-> M2,
      errw |-> IF hasDebug(A, l)
               THEN <<sinceLine(Elems(A, l.Modules), s, msg)>> ELSE <<>>]

\* func (l Log) Since(msg string) Log; n is time.Now() at entry and n2 the
\* reading that time.Since takes.  Nanoseconds() / 1000000 is the whole
\* number of milliseconds in the difference of the readings.
Log_Since(A, M, l, msg, n, n2) ==
  LET since0 == IF l.since = 0 THEN n ELSE l.since
      s == (n2 - since0) \div TicksPerMs
      lit == IF l.sinceLog = NilMap THEN MapLit(M, EmptyF)
             ELSE [ref |-> l.sinceLog, M |-> M]
      M2 == [lit.M EXCEPT ![lit.ref] =
               Merge(@, [x \in {msg} |-> StrV(ToString(s) \o "ms")])]
  IN [l |-> [l EXCEPT !.sinceLog = lit.ref, !.since = n],
      M |-> M2,
      errw |-> IF hasDebug(A, l)
               THEN <<sinceLine(Elems(A, l.Modules), s, msg)>> ELSE <<>>]

\* ------------------------------------------------------------------------
\* The global debug list.

\* Comma-separated lists given to Config.SetDebug, as sequences of
\* characters.
CSVs == {<<>>, <<"a">>, <<"a", "l", "l">>, <<" ">>, <<"b", ",", "a", "l", "l">>}

\* The characters of a token as a string.
RECURSIVE String(_)
String(cs) == IF Len(cs) = 0 THEN "" ELSE Head(cs) \o String(Tail(cs))

\* strings.TrimSpace
RECURSIVE TrimLeft(_)
TrimLeft(cs) ==
  IF Len(cs) > 0 /\ Head(cs) = " " THEN TrimLeft(Tail(cs)) ELSE cs

RECURSIVE TrimRight(_)
TrimRight(cs) ==
  IF Len(cs) > 0 /\ cs[Len(cs)] = " "
  THEN TrimRight(SubSeq(cs, 1, Len(cs) - 1)) ELSE cs

TrimSpace(cs) == TrimRight(TrimLeft(cs))

\* strings.Split(d, ","): the tokens between the commas; cur is the token
\* being read.  Splitting the empty string gives one empty token.
RECURSIVE SplitFrom(_, _)
SplitFrom(cs, cur) ==
  IF Len(cs) = 0 THEN <<String(cur)>>
  ELSE IF Head(cs) = "," THEN <<String(cur)>> \o SplitFrom(Tail(cs), <<>>)
  ELSE SplitFrom(Tail(cs), Append(cur, Head(cs)))

Split(cs) == SplitFrom(cs, <<>>)

\* func (c *LogConfig) SetDebug(d string): the list that c.Debug holds on
\* return.  The assignment of nil for the empty string is followed by the
\* assignment of the split in every case.
LogConfig_SetDebug(old, d) ==
  LET d1 == TrimSpace(d)
      afterIf == IF d1 = <<>> THEN <<>> ELSE old
      afterSplit == Split(d1)
  IN afterSplit

\* ------------------------------------------------------------------------
\* Recover.

\* Values the guarded function panics with; NoPanic when it returns.
NoPanic == [kind |-> "none", text |-> ""]
PanicVals == {NoPanic, [kind |-> "error", text |-> "boom"],
              [kind |-> "string", text |-> "oh noes"]}

\* The callbacks of the tests: one that adds a field, one that observes.
CallbackLists == {<<>>, <<"fields">>, <<"fields", "after">>}

\* cb(l) for a callback of the given kind.
callback(M, kind, l) ==
  IF kind = "fields" THEN Log_Field(M, l, "a", StrV("b"))
  ELSE [l |-> l, M |-> M]

\* debug.Stack()
Stack == "goroutine 1 [running]"

\* for i := range cb[1:] { l = cb[i](l) }: the pass with index i over the
\* len(cb)-1 elements of cb[1:], which calls cb[i].
RECURSIVE recoverRest(_, _, _, _, _)
recoverRest(M, cb, l, i, calls) ==
  IF i > Len(cb) - 1 THEN [l |-> l, M |-> M, calls |-> calls]
  ELSE LET r == callback(M, cb[i], l)
       IN recoverRest(r.M, cb, r.l, i + 1, Append(calls, [cb |-> i, at |-> "after"]))

\* recover() called by the deferred function itself: the value of the panic
\* in progress (nil when there is none), and the panic stops.
recover(p) == [r |-> p, panicking |-> FALSE]

\* Mutant: the result of the first callback is not used.
Recover_dropsFirst(A, M, p, cb, n) ==
  IF recover(p).r.kind = "none"
  THEN [l |-> ZeroLog, A |-> A, M |-> M, out |-> <<>>, calls |-> <<>>,
        panicking |-> recover(p).panicking]
  ELSE LET err == IF p.kind = "error" THEN p.text ELSE Sprintf("", p.text)
           m == Module(A, "panic", n)
           calls1 == IF Len(cb) > 0 THEN <<[cb |-> 1, at |-> "before"]>> ELSE <<>>
           o == Log_Error(m.A, M, m.l, <<err \o "\n" \o Stack>>, n)
       IN [l |-> m.l, A |-> m.A, M |-> M, out |-> o,
           calls |-> calls1, panicking |-> recover(p).panicking]

\* func Recover(cb ...func(Log) Log), run as the deferred call of a
\* function that panicked with p (or returned).  calls lists the callbacks
\* invoked (1-based position in cb); panicking tells whether the panic goes
\* on after Recover returns.
Recover(A, M, p, cb, n) ==
  IF recover(p).r.kind = "none"
  THEN [l |-> ZeroLog, A |-> A, M |-> M, out |-> <<>>, calls |-> <<>>,
        panicking |-> recover(p).panicking]
  ELSE LET err == IF p.kind = "error" THEN p.text ELSE Sprintf("", p.text)
           m == Module(A, "panic", n)
           first == IF Len(cb) > 0 THEN callback(M, cb[1], m.l)
                    ELSE [l |-> m.l, M |-> M]
           calls1 == IF Len(cb) > 0 THEN <<[cb |-> 1, at |-> "before"]>> ELSE <<>>
           err2 == err \o "\n" \o Stack
           o == Log_Error(m.A, first.M, first.l, <<err2>>, n)
           rest == IF Len(cb) > 1 THEN recoverRest(first.M, cb, first.l, 1, calls1)
                   ELSE [l |-> first.l, M |-> first.M, calls |-> calls1]
       IN [l |-> rest.l, A |-> m.A, M |-> rest.M, out |-> o,
           calls |-> rest.calls, panicking |-> recover(p).panicking]

\* ------------------------------------------------------------------------
\* The client program: a bounded number of calls on its registers.

\* What the calls of a chain asked for, kept next to each register:
\* whether every result of the chain was assigned back to the variable it
\* was called on, the trace lines buffered, the fields supplied, and
\* whether FieldsSince was among the calls, the labels given to Since, and
\* the clock reading and the kind ("Since" or "Module") of the last call of
\* the chain that the documentation of Since counts from, the context
\* given to Context, the names given to Module, and the names given to
\* SetDebug, and the clock reading at which a constructor made the entry
\* (0 for Log{}), the number of Error calls made on the entry, and the map of the caller
\* that Fields stored in the entry, with the contents it had when it was
\* passed in.  For the
\* local variable of a unit of work: where the unit is
\* (pc) and the containers of the shared entry it wrote to.
FreshChain ==
  [linear |-> TRUE, traces |-> <<>>, fields |-> EmptyF, fs |-> FALSE,
   labels |-> {}, anchor |-> 0, anchorBy |-> "", ctx |-> NilCtx,
   mods |-> <<>>, dbgs |-> <<>>, pc |-> "start", wrote |-> {},
   created |-> 0, errs |-> 0, caller |-> [ref |-> NilMap, c |-> EmptyF]]

InitRegs(R) ==
  /\ regs = [r \in R |-> ZeroLog]
  /\ arrs = <<>>
  /\ maps = <<>>
  /\ ConfigDebug = <<>>
  /\ ConfigOutputs = <<"output">>
  /\ clock = 1
  /\ out = <<>>
  /\ errw = <<>>
  /\ ev = [op |-> "init", src |-> NoReg, dst |-> NoReg, arg |-> <<>>,
           pre |-> View(<<>>, <<>>, ZeroLog), ret |-> View(<<>>, <<>>, ZeroLog),
           dbg |-> FALSE, calls |-> <<>>, panicking |-> FALSE, wasAll |-> FALSE]
  /\ gh = [r \in R |-> FreshChain]
  /\ steps = 0

\* A sequential program, and one with two units of work.
Init == InitRegs(Regs)
InitUnits == InitRegs(UnitRegs)

\* The record of a call op(arg) on operand l0 (of register src) whose
\* result lret goes to dst, leaving the heaps A2, M2.  wasAll remembers
\* that the global debug list held "all" before some Config.SetDebug call.
Event(op, src, dst, arg, l0, lret, A2, M2) ==
  [op |-> op, src |-> src, dst |-> dst, arg |-> arg,
   pre |-> View(arrs, maps, l0), ret |-> View(A2, M2, lret),
   dbg |-> hasDebug(arrs, l0), calls |-> <<>>, panicking |-> FALSE,
   wasAll |-> ev.wasAll]

\* Print, Error, Debug and Recover return nothing and leave the registers
\* and the heaps as they are: the program is followed up to the first of
\* them, since what may follow it is what may be called in its place.  A
\* call that panics ends the program.
LeafOps == {"Print", "Error", "Debug", "Recover", "FieldsSincePrint"}
Live == ev.op \notin LeafOps /\ ~ev.panicking

\* A package-level constructor whose result is assigned to dst.
Construct(op, dst, arg, lret, A2, M2, g) ==
  /\ Live
  /\ steps < MaxSteps
  /\ steps' = steps + 1
  /\ regs' = [regs EXCEPT ![dst] = lret]
  /\ arrs' = A2
  /\ maps' = M2
  /\ out' = <<>>
  /\ errw' = <<>>
  /\ ev' = Event(op, NoReg, dst, arg, ZeroLog, lret, A2, M2)
  /\ gh' = [gh EXCEPT ![dst] = [g EXCEPT !.created = clock]]
  /\ UNCHANGED <<ConfigDebug, ConfigOutputs>>

\* A chain method called on regs[src]; the result is assigned to dst or
\* discarded (dst = NoReg).  g is what the chain of the result asked for.
\* An entry that starts as Log{} is made by the first call on it.
Chain(op, src, dst, arg, lret, A2, M2, o, w, g) ==
  /\ Live
  /\ steps < MaxSteps
  /\ steps' = steps + 1
  /\ regs' = IF dst = NoReg THEN regs ELSE [regs EXCEPT ![dst] = lret]
  /\ arrs' = A2
  /\ maps' = M2
  /\ out' = o
  /\ errw' = w
  /\ ev' = Event(op, src, dst, arg, regs[src], lret, A2, M2)
  /\ LET g1 == [g EXCEPT !.created = IF @ = 0 THEN clock ELSE @]
     IN gh' = IF dst = src THEN [gh EXCEPT ![src] = g1]
              ELSE IF dst = NoReg THEN [gh EXCEPT ![src].linear = FALSE]
              ELSE [gh EXCEPT ![src].linear = FALSE,
                              ![dst] = [g1 EXCEPT !.linear = FALSE]]
  /\ UNCHANGED <<ConfigDebug, ConfigOutputs>>

\* A terminal method called on regs[src]: nothing is returned.
Terminal(op, src, arg, o) ==
  /\ Live
  /\ out' = o
  /\ errw' = <<>>
  /\ ev' = Event(op, src, NoReg, arg, regs[src], regs[src], arrs, maps)
  /\ UNCHANGED <<regs, arrs, maps, ConfigDebug, ConfigOutputs, clock, gh, steps>>

Dsts == Regs \cup {NoReg}

\* Time passes between two calls.
Tick ==
  /\ Live
  /\ clock < MaxClock
  /\ clock' = clock + 1
  /\ UNCHANGED <<regs, arrs, maps, ConfigDebug, ConfigOutputs, out, errw, ev, gh, steps>>

CallModule ==
  \E dst \in {Base}, m \in ModNames :
    LET r == Module(arrs, m, clock)
    IN /\ Construct("NewModule", dst, <<m>>, r.l, r.A, maps,
                    [FreshChain EXCEPT !.anchor = clock, !.anchorBy = "Module",
                                       !.mods = <<m>>])
       /\ UNCHANGED clock

\* l := zlog.Module(m1).Module(m2).Module(m3), one statement of the client.
CallModulePath ==
  \E dst \in {Base}, m1 \in ModNames, m2 \in ModNames, m3 \in ModNames :
    LET r1 == Module(arrs, m1, clock)
        r2 == Log_Module(r1.A, r1.l, m2, clock)
        r3 == Log_Module(r2.A, r2.l, m3, clock)
    IN /\ Construct("NewModulePath", dst, <<m1, m2, m3>>, r3.l, r3.A, maps,
                    [FreshChain EXCEPT !.anchor = clock, !.anchorBy = "Module",
                                       !.mods = <<m1, m2, m3>>])
       /\ UNCHANGED clock

CallSetDebug ==
  \E dst \in {Base}, ms \in DebugArgs :
    LET r == SetDebug(arrs, ms)
    IN /\ Construct("NewSetDebug", dst, ms, r.l, r.A, maps,
                    [FreshChain EXCEPT !.dbgs = ms])
       /\ UNCHANGED clock

CallField ==
  \E dst \in {Base}, kv \in FieldArgs :
    LET k == kv[1]
        v == kv[2]
        r == Field(maps, k, v)
    IN /\ Construct("NewField", dst, <<k>>, r.l, arrs, r.M,
                    [FreshChain EXCEPT !.fields = [x \in {k} |-> v]])
       /\ UNCHANGED clock

CallLogModule ==
  \E src \in {Base}, dst \in Dsts, m \in ModNames :
    LET r == Log_Module(arrs, regs[src], m, clock)
    IN /\ Chain("Module", src, dst, <<m>>, r.l, r.A, maps, <<>>, <<>>,
                [gh[src] EXCEPT !.anchor = clock, !.anchorBy = "Module",
                                !.mods = Append(@, m)])
       /\ UNCHANGED clock

CallLogSetDebug ==
  \E src \in {Base}, dst \in Dsts, ms \in DebugArgs :
    LET r == Log_SetDebug(arrs, regs[src], ms)
    IN /\ Chain("SetDebug", src, dst, ms, r.l, r.A, maps, <<>>, <<>>,
                [gh[src] EXCEPT !.dbgs = @ \o ms])
       /\ UNCHANGED clock

CallLogField ==
  \E src \in {Base}, dst \in Dsts, kv \in FieldArgs :
    LET k == kv[1]
        v == kv[2]
        r == Log_Field(maps, regs[src], k, v)
    IN /\ Chain("Field", src, dst, <<k>>, r.l, arrs, r.M, <<>>, <<>>,
                [gh[src] EXCEPT !.fields = Merge(@, [x \in {k} |-> v])])
       /\ UNCHANGED clock

\* f := F{...}; Fields(f): the map is the caller's.
CallFields ==
  \E dst \in {Base}, c \in FieldLits :
    LET lit == MapLit(maps, c)
    IN /\ Construct("NewFields", dst, <<>>, Fields(lit.ref), arrs, lit.M,
                    [FreshChain EXCEPT !.fields = c,
                                       !.caller = [ref |-> lit.ref, c |-> c]])
       /\ UNCHANGED clock

\* f := F{...}; l.Fields(f): the map is the caller's.
CallLogFields ==
  \E src \in {Base}, dst \in Dsts, c \in FieldLits :
    LET lit == MapLit(maps, c)
        r == Log_Fields(lit.M, regs[src], lit.ref)
    IN /\ Chain("Fields", src, dst, <<>>, r.l, arrs, r.M, <<>>, <<>>,
                [gh[src] EXCEPT !.fields = Merge(@, c),
                                !.caller = IF regs[src].Data = NilMap
                                           THEN [ref |-> lit.ref, c |-> c]
                                           ELSE @])
       /\ UNCHANGED clock

\* The call op(arg) on regs[src] panicked: nothing is returned or assigned.
Panicked(op, src, dst, arg, l0) ==
  /\ Live
  /\ steps < MaxSteps
  /\ steps' = steps + 1
  /\ out' = <<>>
  /\ errw' = <<>>
  /\ ev' = [Event(op, src, dst, arg, l0, l0, arrs, maps) EXCEPT !.panicking = TRUE]
  /\ UNCHANGED <<regs, arrs, maps, ConfigDebug, ConfigOutputs, gh>>

\* The fields FieldsRequest adds for a request.
RequestFields(r) == MapOf(FieldsRequest(<<>>, r).M, 1)

\* zlog.FieldsRequest(r)
CallFieldsRequest ==
  \E dst \in {Base}, r \in Requests :
    LET c == FieldsRequest(maps, r)
    IN /\ IF c.panic # ""
          THEN Panicked("FieldsRequest", NoReg, dst, <<r>>, ZeroLog)
          ELSE Construct("FieldsRequest", dst, <<r>>, c.l, arrs, c.M,
                         [FreshChain EXCEPT !.fields = RequestFields(r)])
       /\ UNCHANGED clock

\* l.FieldsRequest(r)
CallLogFieldsRequest ==
  \E src \in {Base}, dst \in Dsts, r \in Requests :
    LET c == Log_FieldsRequest(maps, regs[src], r)
    IN /\ IF c.panic # ""
          THEN Panicked("FieldsRequest", src, dst, <<r>>, regs[src])
          ELSE Chain("FieldsRequest", src, dst, <<r>>, c.l, arrs, c.M, <<>>, <<>>,
                     [gh[src] EXCEPT !.fields = Merge(@, RequestFields(r))])
       /\ UNCHANGED clock

CallLogFieldsSince ==
  \E src \in {Base}, dst \in Dsts :
    LET r == Log_FieldsSince(maps, regs[src])
    IN /\ Chain("FieldsSince", src, dst, <<>>, r.l, arrs, r.M, <<>>, <<>>,
                [gh[src] EXCEPT !.fields = Merge(@, MapOf(maps, regs[src].sinceLog)),
                                !.fs = TRUE])
       /\ UNCHANGED clock

\* l.Context(ctx): a statement, since Context returns nothing.
CallLogContext ==
  \E src \in {Base}, ctx \in Ctxs :
    /\ Live
    /\ steps < MaxSteps
    /\ steps' = steps + 1
    /\ out' = <<>>
    /\ errw' = <<>>
    /\ ev' = Event("Context", src, NoReg, ctx, regs[src],
                   Log_Context(regs[src], ctx).local, arrs, maps)
    /\ gh' = [gh EXCEPT ![src].ctx = ctx]
    /\ UNCHANGED <<regs, arrs, maps, ConfigDebug, ConfigOutputs, clock>>

CallLogResetTrace ==
  \E src \in {Base}, dst \in Dsts :
    /\ Chain("ResetTrace", src, dst, <<>>, Log_ResetTrace(regs[src]), arrs, maps,
             <<>>, <<>>, [gh[src] EXCEPT !.traces = <<>>])
    /\ UNCHANGED clock

\* The chain of the result of Trace: the line is buffered unless the entry
\* is in debug mode.
TraceChain(src, msg) ==
  LET l1 == [regs[src] EXCEPT !.Msg = msg, !.Level = LevelTrace]
  IN IF hasDebug(arrs, l1) THEN gh[src]
     ELSE [gh[src] EXCEPT !.traces = Append(@, formatLine(View(arrs, maps, l1), clock))]

CallLogTrace ==
  \E src \in {Base}, dst \in Dsts, msg \in TraceMsgs :
    LET r == Log_Trace(arrs, maps, regs[src], Sprint(msg), clock)
    IN /\ Chain("Trace", src, dst, <<msg>>, r.l, r.A, maps, r.out, <<>>,
                TraceChain(src, msg))
       /\ UNCHANGED clock

\* Tracef("t%s", "1") and Tracef("t%s", "2").
CallLogTracef ==
  \E src \in {Base}, dst \in Dsts, v \in {"1", "2"} :
    LET r == Log_Trace(arrs, maps, regs[src], Sprintf("t", v), clock)
    IN /\ Chain("Trace", src, dst, <<Sprintf("t", v)>>, r.l, r.A, maps, r.out, <<>>,
                TraceChain(src, Sprintf("t", v)))
       /\ UNCHANGED clock

\* The chain of the result of Since(msg), called at the current reading.
SinceChain(src, msg) ==
  [gh[src] EXCEPT !.labels = @ \cup {msg}, !.anchor = clock, !.anchorBy = "Since"]

\* Since reads the clock twice: here both readings fall in the same unit.
CallLogSince ==
  \E src \in {Base}, dst \in Dsts, msg \in Labels :
    LET r == Log_Since(arrs, maps, regs[src], msg, clock, clock)
    IN /\ Chain("Since", src, dst, <<msg>>, r.l, arrs, r.M, <<>>, r.errw,
                SinceChain(src, msg))
       /\ UNCHANGED clock

\* Since with the reading of time.Since one unit after that of time.Now.
CallLogSinceLate ==
  \E src \in {Base}, dst \in Dsts, msg \in Labels :
    /\ clock < MaxClock
    /\ LET r == Log_Since(arrs, maps, regs[src], msg, clock, clock + 1)
       IN /\ Chain("Since", src, dst, <<msg>>, r.l, arrs, r.M, <<>>, r.errw,
                   SinceChain(src, msg))
          /\ clock' = clock + 1

\* l.FieldsSince().Print("p"): the entry that FieldsSince returns is
\* printed and not kept.
CallLogFieldsSincePrint ==
  \E src \in Regs, msg \in PrintMsgs :
    LET r == Log_FieldsSince(maps, regs[src])
    IN /\ Live
       /\ maps' = r.M
       /\ out' = Log_Print(arrs, r.M, r.l, Sprint(msg), clock)
       /\ errw' = <<>>
       /\ ev' = Event("FieldsSincePrint", src, NoReg, <<msg>>, regs[src], r.l, arrs, r.M)
       /\ UNCHANGED <<regs, arrs, ConfigDebug, ConfigOutputs, clock, gh, steps>>

CallLogPrint ==
  \E src \in Regs, msg \in PrintMsgs :
    Terminal("Print", src, <<msg>>, Log_Print(arrs, maps, regs[src], Sprint(msg), clock))

\* Printf("%s", "p")
CallLogPrintf ==
  \E src \in Regs, msg \in PrintMsgs :
    Terminal("Print", src, <<msg>>, Log_Print(arrs, maps, regs[src], Sprintf("", msg), clock))

CallLogError ==
  \E src \in Regs, err \in ErrArgs :
    Terminal("Error", src, err, Log_Error(arrs, maps, regs[src], err, clock))

\* l.Error(err) in a program that goes on with l afterwards: Error has a
\* value receiver and returns nothing, so l is what it was.
CallLogErrorThen ==
  \E src \in {Base}, err \in ErrArgs :
    /\ Live
    /\ gh[src].errs < MaxErrors
    /\ out' = Log_Error(arrs, maps, regs[src], err, clock)
    /\ errw' = <<>>
    /\ ev' = Event("ErrorThen", src, NoReg, err, regs[src], regs[src], arrs, maps)
    /\ gh' = [gh EXCEPT ![src].errs = @ + 1]
    /\ UNCHANGED <<regs, arrs, maps, ConfigDebug, ConfigOutputs, clock, steps>>

\* Errorf("%s", "e"): fmt.Errorf never returns nil.
CallLogErrorf ==
  \E src \in Regs, err \in ErrArgs \ {NilErr} :
    Terminal("Error", src, <<Sprintf("", err[1])>>,
             Log_Error(arrs, maps, regs[src], <<Sprintf("", err[1])>>, clock))

CallLogDebug ==
  \E src \in Regs, msg \in PrintMsgs :
    Terminal("Debug", src, <<msg>>, Log_Debug(arrs, maps, regs[src], Sprint(msg), clock))

\* Debugf("%s", "p")
CallLogDebugf ==
  \E src \in Regs, msg \in PrintMsgs :
    Terminal("Debug", src, <<msg>>, Log_Debug(arrs, maps, regs[src], Sprintf("", msg), clock))

\* Config.SetDebug(d): a call on the configuration, not on an entry; it is
\* not one of the MaxSteps calls that build the chain.
CallConfigSetDebug ==
  \E d \in CSVs :
    /\ Live
    /\ ConfigDebug' = LogConfig_SetDebug(ConfigDebug, d)
    /\ out' = <<>>
    /\ errw' = <<>>
    /\ ev' = [Event("ConfigSetDebug", NoReg, NoReg, d, ZeroLog, ZeroLog, arrs, maps)
                EXCEPT !.dbg = FALSE,
                       !.wasAll = @ \/ \E i \in 1..Len(ConfigDebug) : ConfigDebug[i] = "all"]
    /\ UNCHANGED <<regs, arrs, maps, ConfigOutputs, clock, gh, steps>>

\* Config.Outputs = append(Config.Outputs, f), f one of the two sinks of
\* the documentation.
CallAppendOutput ==
  \E f \in {"errorsOnly", "nonErrors"} :
    /\ Live
    /\ Len(ConfigOutputs) < MaxOutputs
    /\ ConfigOutputs' = Append(ConfigOutputs, f)
    /\ out' = <<>>
    /\ errw' = <<>>
    /\ ev' = [Event("AppendOutput", NoReg, NoReg, <<f>>, ZeroLog, ZeroLog, arrs, maps)
                EXCEPT !.dbg = FALSE]
    /\ UNCHANGED <<regs, arrs, maps, ConfigDebug, clock, gh, steps>>

\* Config.Outputs = []OutputFunc{f}, f the sink of the tests.
CallSetOutputs ==
  /\ Live
  /\ ConfigOutputs' = <<"buffer">>
  /\ out' = <<>>
  /\ errw' = <<>>
  /\ ev' = [Event("SetOutputs", NoReg, NoReg, <<"buffer">>, ZeroLog, ZeroLog, arrs, maps)
              EXCEPT !.dbg = FALSE]
  /\ UNCHANGED <<regs, arrs, maps, ConfigDebug, clock, gh, steps>>

\* A function that defers Recover(cb...) and panics with p or returns.  The
\* Log that Recover builds is local to it: nothing refers to its array and
\* map once Recover has returned.
CallRecover ==
  \E p \in PanicVals, cb \in CallbackLists :
    LET r == Recover(arrs, maps, p, cb, clock)
    IN /\ Live
       /\ out' = r.out
       /\ errw' = <<>>
       /\ ev' = [Event("Recover", NoReg, NoReg, <<p, cb>>, ZeroLog, r.l, r.A, r.M)
                   EXCEPT !.calls = r.calls, !.panicking = r.panicking]
       /\ UNCHANGED <<regs, arrs, maps, ConfigDebug, ConfigOutputs, clock, gh, steps>>

\* The calls that build and render fields.
NextFields ==
  \/ CallField
  \/ CallFields
  \/ CallLogField
  \/ CallLogFields
  \/ CallLogFieldsSince
  \/ CallLogSince
  \/ CallLogPrint
  \/ CallLogPrintf

SpecFields == Init /\ [][NextFields]_vars

\* The calls that decide the debug gate.
NextDebug ==
  \/ CallModule
  \/ CallSetDebug
  \/ CallLogModule
  \/ CallLogSetDebug
  \/ CallConfigSetDebug
  \/ CallLogDebug
  \/ CallLogDebugf

SpecDebug == Init /\ [][NextDebug]_vars

\* The calls that buffer, drop and replay traces.
NextTrace ==
  \/ CallModule
  \/ CallLogModule
  \/ CallLogSetDebug
  \/ CallLogTrace
  \/ CallLogTracef
  \/ CallLogResetTrace
  \/ CallLogPrint
  \/ CallLogPrintf
  \/ CallLogDebug
  \/ CallLogDebugf
  \/ CallLogError
  \/ CallLogErrorf

SpecTrace == Init /\ [][NextTrace]_vars

\* Functions that defer Recover, between calls that change what the
\* dispatch reads: the clock and the configuration.
NextRecover ==
  \/ Tick
  \/ CallConfigSetDebug
  \/ CallField
  \/ CallRecover

SpecRecover == Init /\ [][NextRecover]_vars

\* The calls that measure time: Since and Module between readings of the
\* clock.
NextSince ==
  \/ Tick
  \/ CallModule
  \/ CallSetDebug
  \/ CallField
  \/ CallFields
  \/ CallLogSince
  \/ CallLogSinceLate

SpecSince == Init /\ [][NextSince]_vars

\* The calls that record timings and turn them into fields, on entries in
\* and out of debug.
NextFieldsSince ==
  \/ CallModule
  \/ CallLogSetDebug
  \/ CallField
  \/ CallLogSince
  \/ CallLogFieldsSincePrint

SpecFieldsSince == Init /\ [][NextFieldsSince]_vars

\* The calls that take fields from a request, and the calls that print.
NextRequest ==
  \/ CallField
  \/ CallFieldsRequest
  \/ CallLogFieldsRequest
  \/ CallLogPrint
  \/ CallLogError

SpecRequest == Init /\ [][NextRequest]_vars

\* The calls that attach a context, and the sinks that may read it.
NextContext ==
  \/ CallField
  \/ CallLogContext
  \/ CallAppendOutput
  \/ CallSetOutputs
  \/ CallLogPrint
  \/ CallLogError

SpecContext == Init /\ [][NextContext]_vars

\* The calls that register sinks and the calls that dispatch to them.
NextOutputs ==
  \/ CallAppendOutput
  \/ CallSetOutputs
  \/ CallModule
  \/ CallLogSetDebug
  \/ CallLogPrint
  \/ CallLogError
  \/ CallLogDebug

SpecOutputs == Init /\ [][NextOutputs]_vars

\* ------------------------------------------------------------------------
\* Two units of work (goroutines) that share the entry in Base: each derives
\* its own entry with one chain call, keeps it in its local variable, and
\* prints it.  The calls of the two units interleave.

OtherUnit(u) == IF u = Other THEN Third ELSE Other

\* The containers reachable from the shared entry that a chain call writes:
\* the map that a non-nil Data or sinceLog refers to, and the backing array
\* that append writes into when the capacity allows it.
MapWritten(ref) == IF ref = NilMap THEN {} ELSE {<<"map", ref>>}
ArrWritten(s) == IF s.len + 1 <= s.cap THEN {<<"arr", s.arr>>} ELSE {}

\* Unit u derives its entry from Base with op(arg).  W is what the call
\* writes of the shared entry.  Two writes of one map by goroutines that
\* are not synchronised are a data race: the runtime may stop the program
\* ("fatal error: concurrent map writes") or let one write follow the
\* other.  A racing write of an array element leaves one of the two values.
UnitDerive(u, op, arg, lret, A2, M2, o, w, g, W) ==
  /\ Live
  /\ steps > 0
  /\ gh[u].pc = "start"
  /\ \E fatal \in IF \E c \in W \cap gh[OtherUnit(u)].wrote : c[1] = "map"
                   THEN BOOLEAN ELSE {FALSE} :
       /\ regs' = IF fatal THEN regs ELSE [regs EXCEPT ![u] = lret]
       /\ arrs' = IF fatal THEN arrs ELSE A2
       /\ maps' = IF fatal THEN maps ELSE M2
       /\ out' = IF fatal THEN <<>> ELSE o
       /\ errw' = IF fatal THEN <<>> ELSE w
       /\ ev' = [Event(op, Base, u, arg, regs[Base], lret, A2, M2)
                   EXCEPT !.panicking = fatal]
       /\ gh' = [gh EXCEPT ![u] = [g EXCEPT !.linear = FALSE, !.pc = "derived",
                                            !.wrote = W]]
  /\ UNCHANGED <<ConfigDebug, ConfigOutputs, clock, steps>>

UnitField ==
  \E u \in Units, kv \in FieldArgs :
    LET k == kv[1]
        v == kv[2]
        r == Log_Field(maps, regs[Base], k, v)
    IN UnitDerive(u, "UnitField", <<k>>, r.l, arrs, r.M, <<>>, <<>>,
                  [gh[Base] EXCEPT !.fields = Merge(@, [x \in {k} |-> v])],
                  MapWritten(regs[Base].Data))

UnitModule ==
  \E u \in Units, m \in ModNames :
    LET r == Log_Module(arrs, regs[Base], m, clock)
    IN UnitDerive(u, "UnitModule", <<m>>, r.l, r.A, maps, <<>>, <<>>,
                  [gh[Base] EXCEPT !.mods = Append(@, m)],
                  ArrWritten(regs[Base].Modules))

UnitTrace ==
  \E u \in Units, msg \in TraceMsgs :
    LET r == Log_Trace(arrs, maps, regs[Base], Sprint(msg), clock)
    IN UnitDerive(u, "UnitTrace", <<msg>>, r.l, r.A, maps, r.out, <<>>,
                  TraceChain(Base, msg),
                  IF hasDebug(arrs, regs[Base]) THEN {}
                  ELSE ArrWritten(regs[Base].Traces))

UnitSince ==
  \E u \in Units, msg \in Labels :
    LET r == Log_Since(arrs, maps, regs[Base], msg, clock, clock)
    IN UnitDerive(u, "UnitSince", <<msg>>, r.l, arrs, r.M, <<>>, r.errw,
                  SinceChain(Base, msg),
                  MapWritten(regs[Base].sinceLog))

\* The terminal call of unit u on its own entry.
UnitPrint ==
  \E u \in Units, msg \in PrintMsgs :
    /\ Live
    /\ gh[u].pc = "derived"
    /\ out' = Log_Print(arrs, maps, regs[u], Sprint(msg), clock)
    /\ errw' = <<>>
    /\ ev' = Event("UnitPrint", u, NoReg, <<msg>>, regs[u], regs[u], arrs, maps)
    /\ gh' = [gh EXCEPT ![u].pc = "done"]
    /\ UNCHANGED <<regs, arrs, maps, ConfigDebug, ConfigOutputs, clock, steps>>

\* The shared entry is what one statement of the program made before the
\* units were started.
NextUnits ==
  \/ steps = 0 /\ CallModule
  \/ steps = 0 /\ CallModulePath
  \/ steps = 0 /\ CallField
  \/ steps = 0 /\ CallFields
  \/ UnitField
  \/ UnitModule
  \/ UnitTrace
  \/ UnitSince
  \/ UnitPrint

SpecUnits == InitUnits /\ [][NextUnits]_vars

\* Traces buffered on an entry and the Error calls that replay them.
NextErrors ==
  \/ CallModule
  \/ CallLogTrace
  \/ CallLogResetTrace
  \/ CallLogErrorThen

SpecErrors == Init /\ [][NextErrors]_vars

\* Entries derived from one base entry that has three modules.
NextForks ==
  \/ CallModulePath
  \/ CallLogModule
  \/ CallLogSetDebug
  \/ CallLogTrace
  \/ CallLogError

SpecForks == Init /\ [][NextForks]_vars

\* ------------------------------------------------------------------------
\* Properties.

\* The entry that register r holds, as the current heaps show it.
Now(r) == View(arrs, maps, regs[r])

\* The text that Print("p") writes for an entry v.
PrintText(v) == format([v EXCEPT !.Msg = "p", !.Level = LevelInfo], clock)

\* The text that FieldsSince().Print("p") writes for an entry v.
SinceText(v) == PrintText([v EXCEPT !.Data = Merge(v.Data, v.sinceLog)])

\* The elements of a sequence.
Range(xs) == {xs[i] : i \in 1..Len(xs)}

\* The debug gate as the documentation states it: some module of the entry
\* is named in the global list or in the entry's own list, or the entry has
\* a module and one of the lists holds "all".
InDebug(v) ==
  LET lists == Range(ConfigDebug) \cup Range(v.DebugModules)
  IN \/ \E m \in Range(v.Modules) : m \in lists
     \/ Range(v.Modules) # {} /\ "all" \in lists

\* Every line of ts followed by a newline.
Lines(ts) == IF Len(ts) = 0 THEN "" ELSE Join(ts, "\n") \o "\n"

\* C1: b := a.Fields(f) or b := a.Field(k, v) leaves a unchanged: Print on
\* a afterwards renders exactly the fields a had before the call.
C1_FieldsLeavesOperand ==
  (ev.op \in {"Field", "Fields"} /\ ev.dst # ev.src)
    => PrintText(Now(ev.src)) = PrintText(ev.pre)

\* C2: hasDebug is true exactly when a module of the entry is in the global
\* or in the entry's own debug list, or the entry has a module and "all" is
\* in either list; an entry without modules is never in debug.
C2_HasDebugIffListed ==
  \A r \in Regs :
    /\ hasDebug(arrs, regs[r]) <=> InDebug(Now(r))
    /\ Len(Now(r).Modules) = 0 => ~hasDebug(arrs, regs[r])

\* An entry with module "b" only is in debug through "all" in its own list.
C2_Witness ==
  /\ Now(Base).Modules = <<"b">>
  /\ Now(Base).DebugModules = <<"all">>
  /\ ConfigDebug = <<>>
  /\ hasDebug(arrs, regs[Base])

\* C3: Debug and Debugf dispatch exactly one entry, at level Debug, when
\* the entry is in debug, and nothing when it is not, in whatever order
\* Module and SetDebug were called.
C3_DebugDispatchesIffInDebug ==
  ev.op = "Debug" =>
    IF InDebug(ev.pre)
    THEN /\ Len(out) = 1
         /\ out[1].entry.Level = LevelDbg
         /\ out[1].entry.Msg = ev.arg[1]
         /\ out[1].entry.Modules = ev.pre.Modules
    ELSE out = <<>>

\* Debug on an entry with module "a" whose own debug list names "a".
C3_Witness ==
  /\ ev.op = "Debug"
  /\ ev.pre.Modules = <<"a">>
  /\ ev.pre.DebugModules = <<"a">>
  /\ ConfigDebug = <<>>
  /\ Len(out) = 1

\* C4: Trace and Tracef on an entry that is not in debug dispatch nothing
\* and return the operand's traces plus one element; on an entry in debug
\* they dispatch one Trace-level entry and return traces of the same length.
C4_TraceBuffersOrEmits ==
  ev.op = "Trace" =>
    IF InDebug(ev.pre)
    THEN /\ Len(out) = 1
         /\ out[1].entry.Level = LevelTrace
         /\ ev.ret.Traces = ev.pre.Traces
    ELSE /\ out = <<>>
         /\ Len(ev.ret.Traces) = Len(ev.pre.Traces) + 1
         /\ SubSeq(ev.ret.Traces, 1, Len(ev.pre.Traces)) = ev.pre.Traces

\* A second trace buffered on an entry that is not in debug.
C4_Witness ==
  /\ ev.op = "Trace"
  /\ ~InDebug(ev.pre)
  /\ Len(ev.pre.Traces) = 1
  /\ Len(ev.ret.Traces) = 2
  /\ out = <<>>

\* C5: on a chain whose every result was assigned back, Error writes the
\* trace lines buffered on the chain, in the order of buffering, and then
\* the error line.
C5_ErrorReplaysTraces ==
  (ev.op = "Error" /\ gh[ev.src].linear) =>
    /\ Len(out) = 1
    /\ out[1].text =
         Lines(gh[ev.src].traces)
         \o formatLine([ev.pre EXCEPT !.Err = ev.arg, !.Level = LevelErr], clock)

\* Error after two different traces were buffered on the chain.
C5_Witness ==
  /\ ev.op = "Error"
  /\ gh[ev.src].linear
  /\ Len(gh[ev.src].traces) = 2
  /\ gh[ev.src].traces[1] # gh[ev.src].traces[2]
  /\ ev.arg # NilErr

\* C6: Print, Printf, Debug and Debugf write none of the buffered traces,
\* and the entry they dispatch has the level of the call.
C6_OnlyErrorReplaysTraces ==
  (ev.op \in {"Print", "Debug"} /\ out # <<>>) =>
    /\ Len(out) = 1
    /\ out[1].entry.Level = (IF ev.op = "Print" THEN LevelInfo ELSE LevelDbg)
    /\ out[1].text = formatLine(out[1].entry, clock)

\* Print on an entry that holds a buffered trace and still has the Trace
\* level and message of the Trace call.
C6_Witness ==
  /\ ev.op = "Print"
  /\ Len(ev.pre.Traces) >= 1
  /\ ev.pre.Level = LevelTrace
  /\ Len(out) = 1
  /\ out[1].entry.Level = LevelInfo

\* C7: l.Since(label), l.Trace(msg), l.Module(m) or l.SetDebug(m) with the
\* result discarded leaves l unchanged: l.FieldsSince().Print(...) writes
\* what it would have written without the call.
C7_DiscardedCallLeavesEntry ==
  (ev.op \in {"Since", "Trace", "Module", "SetDebug"} /\ ev.dst = NoReg)
    => SinceText(Now(ev.src)) = SinceText(ev.pre)

\* C8: on a chain whose every result was assigned back and that did not go
\* through FieldsSince, the fields of the entry are the pairs of all the
\* Fields and Field calls, the last call that gave a key deciding its value.
C8_FieldsMerge ==
  \A r \in Regs :
    (gh[r].linear /\ ~gh[r].fs) => Now(r).Data = gh[r].fields

\* A Field call that overwrites the value of "k" and keeps "k1".
C8_Witness ==
  /\ ev.op = "Field"
  /\ ev.dst = ev.src
  /\ gh[ev.src].linear
  /\ ~gh[ev.src].fs
  /\ DOMAIN ev.pre.Data = {"k", "k1"}
  /\ Now(ev.src).Data["k"] # ev.pre.Data["k"]
  /\ Now(ev.src).Data["k1"] = ev.pre.Data["k1"]

\* C9: ResetTrace returns the operand with no traces and everything else
\* as it was; an Error on the result writes the error line only.
C9_ResetTraceClearsTraces ==
  ev.op = "ResetTrace" =>
    /\ ev.ret = [ev.pre EXCEPT !.Traces = <<>>]
    /\ LET e == [ev.ret EXCEPT !.Err = <<"e">>, !.Level = LevelErr]
       IN format(e, clock) = formatLine(e, clock)

\* ResetTrace on an entry with a module and a buffered trace.
C9_Witness ==
  /\ ev.op = "ResetTrace"
  /\ Len(ev.pre.Traces) >= 1
  /\ Len(ev.pre.Modules) >= 1
  /\ ev.ret.Modules = ev.pre.Modules

\* C10: Recover writes nothing when the function did not panic; when it
\* did, Recover dispatches one Error-level entry of module "panic" whose
\* error embeds the panic value and whose fields include those of the first
\* callback, and the panic does not go on.
C10_RecoverReportsPanic ==
  ev.op = "Recover" =>
    LET p == ev.arg[1]
        cb == ev.arg[2]
    IN /\ ~ev.panicking
       /\ IF p.kind = "none" THEN out = <<>>
          ELSE /\ Len(out) = 1
               /\ out[1].entry.Level = LevelErr
               /\ out[1].stream = "stderr"
               /\ out[1].entry.Modules = <<"panic">>
               /\ out[1].entry.Err = <<p.text \o "\n" \o Stack>>
               /\ (Len(cb) > 0 /\ cb[1] = "fields") =>
                    /\ "a" \in DOMAIN out[1].entry.Data
                    /\ out[1].entry.Data["a"] = StrV("b")

\* Recover after panic("oh noes") with a first callback that adds a field.
C10_Witness ==
  /\ ev.op = "Recover"
  /\ ev.arg[1].kind = "string"
  /\ Len(ev.arg[2]) = 2
  /\ Len(out) = 1
  /\ DOMAIN out[1].entry.Data = {"a"}

\* C11: when Recover captures a panic, the first callback is invoked once
\* before the Error dispatch and every other callback once after it, in
\* their order; none is invoked twice and none is skipped.
C11_RecoverCallbackOrder ==
  (ev.op = "Recover" /\ ev.arg[1].kind # "none") =>
    LET cb == ev.arg[2]
    IN ev.calls = [i \in 1..Len(cb) |->
                     [cb |-> i, at |-> IF i = 1 THEN "before" ELSE "after"]]

\* C12: after Config.SetDebug of the empty or a whitespace-only string the
\* global list is empty, and it puts no entry in debug, whatever its module
\* is named (the empty name included).
C12_SetDebugEmptyClears ==
  (ev.op = "ConfigSetDebug" /\ TrimSpace(ev.arg) = <<>>) =>
    /\ ConfigDebug = <<>>
    /\ \A m \in ModNames \cup {""} : ~hasDebugFrom(<<m>>, ConfigDebug, <<>>, 1)

\* C13, as stated: while the global list holds "all", Debug dispatches for
\* every entry with a module; once the list has been set again and holds
\* neither "all" nor a module of the entry, Debug on the entry dispatches
\* nothing.
C13_GlobalAllAsStated ==
  (ev.op = "Debug" /\ Len(ev.pre.Modules) >= 1) =>
    /\ "all" \in Range(ConfigDebug) => Len(out) = 1
    /\ (/\ ev.wasAll
        /\ "all" \notin Range(ConfigDebug)
        /\ Range(ev.pre.Modules) \cap Range(ConfigDebug) = {})
       => out = <<>>

\* C13, amended: the second half holds for the entries whose own debug
\* list (SetDebug) holds neither "all" nor one of their modules.
C13_GlobalAll ==
  (ev.op = "Debug" /\ Len(ev.pre.Modules) >= 1) =>
    /\ "all" \in Range(ConfigDebug) =>
         /\ Len(out) = 1
         /\ out[1].entry.Level = LevelDbg
    /\ (/\ ev.wasAll
        /\ "all" \notin Range(ConfigDebug)
        /\ Range(ev.pre.Modules) \cap Range(ConfigDebug) = {}
        /\ "all" \notin Range(ev.pre.DebugModules)
        /\ Range(ev.pre.Modules) \cap Range(ev.pre.DebugModules) = {})
       => out = <<>>

\* Debug on an entry with a module and no debug list of its own, after the
\* global list held "all" and was set again to the empty string.
C13_Witness ==
  /\ ev.op = "Debug"
  /\ ev.wasAll
  /\ ConfigDebug = <<"">>
  /\ Len(ev.pre.Modules) = 2
  /\ ev.pre.DebugModules = <<>>
  /\ out = <<>>

\* The values "<n>ms" that Since records.
MsVals == {StrV(ToString(n) \o "ms") : n \in 0..MaxClock}

\* C14: on a chain whose every result was assigned back,
\* l.FieldsSince().Print("p") dispatches one Info entry whose fields are the
\* fields the entry had and one field label -> "<n>ms" for every label the
\* chain gave to Since, and writes them in its line, in debug or not.
C14_FieldsSinceRendersLabels ==
  (ev.op = "FieldsSincePrint" /\ gh[ev.src].linear) =>
    /\ Len(out) = 1
    /\ out[1].entry.Level = LevelInfo
    /\ DOMAIN out[1].entry.Data = DOMAIN ev.pre.Data \cup gh[ev.src].labels
    /\ \A lb \in gh[ev.src].labels : out[1].entry.Data[lb] \in MsVals
    /\ \A k \in DOMAIN ev.pre.Data \ gh[ev.src].labels :
         out[1].entry.Data[k] = ev.pre.Data[k]
    /\ out[1].text = formatLine(out[1].entry, clock)

\* FieldsSince().Print on an entry in debug, after one Since on its chain.
C14_Witness ==
  /\ ev.op = "FieldsSincePrint"
  /\ gh[ev.src].linear
  /\ ev.dbg
  /\ gh[ev.src].labels = {"s1"}
  /\ DOMAIN out[1].entry.Data = {"s1"}

\* The whole milliseconds between the reading ending a Since call and the
\* reading t of an earlier call.
Elapsed(t) == StrV(ToString((clock' - t) \div TicksPerMs) \o "ms")

\* C15: a Since call on an entry that an earlier Since call returned
\* reports the time since that earlier call: the previous call of the
\* chain when every result is assigned back, and the call that made the
\* entry (the cumulative time) when results in between were discarded.
C15_SinceIntervals ==
  [][(/\ steps' = steps + 1
      /\ ev'.op = "Since"
      /\ gh[ev'.src].anchorBy = "Since")
     => ev'.ret.sinceLog[ev'.arg[1]] = Elapsed(gh[ev'.src].anchor)]_vars

\* A third Since on an entry made at reading 1, called at reading 3 after a
\* Since whose result was discarded, reports the cumulative 1ms.
C15_Witness ==
  /\ ev.op = "Since"
  /\ ev.dst = NoReg
  /\ DOMAIN ev.pre.sinceLog = {"s1", "s2"}
  /\ gh[ev.src].anchorBy = "Since"
  /\ gh[ev.src].anchor = 1
  /\ clock = 3
  /\ ev.ret.sinceLog[ev.arg[1]] = StrV("1ms")

\* C16: every dispatch of Print, Error and Debug invokes each sink of
\* Config.Outputs once, in the order of the list, and every sink is given
\* the entry being dispatched, also after a sink that returned early.
C16_EverySinkOnce ==
  (ev.op \in {"Print", "Error"} \/ (ev.op = "Debug" /\ ev.dbg)) =>
    /\ Len(out) = Len(ConfigOutputs)
    /\ \A i \in 1..Len(out) :
         /\ out[i].sink = ConfigOutputs[i]
         /\ out[i].entry = out[1].entry
         /\ out[i].entry.Modules = ev.pre.Modules
         /\ out[i].entry.Data = ev.pre.Data
         /\ out[i].entry.Level =
              (CASE ev.op = "Print" -> LevelInfo
                 [] ev.op = "Error" -> LevelErr
                 [] ev.op = "Debug" -> LevelDbg)

\* An Error dispatch to the default sink, then the non-errors sink, which
\* returns early, then the errors-only sink, which is still invoked.
C16_Witness ==
  /\ ev.op = "Error"
  /\ ConfigOutputs = <<"output", "nonErrors", "errorsOnly">>
  /\ Len(out) = 3
  /\ out[2].stream = "none"
  /\ out[3].sink = "errorsOnly"
  /\ out[3].stream = "notification service"

\* C17: the default sink writes the formatted entry to stderr when the
\* entry's level is Error and to stdout at the levels Info, Debug and Trace:
\* one write per dispatched entry, to one of the two streams, so that the
\* writes to stderr are those of Error and Errorf.
C17_DefaultSinkStream ==
  \A i \in 1..Len(out) :
    out[i].sink = "output" =>
      /\ out[i].stream = (IF out[i].entry.Level = LevelErr THEN "stderr" ELSE "stdout")
      /\ out[i].stream \in {"stdout", "stderr"}
      /\ out[i].text = format(out[i].entry, clock)
      /\ out[i].entry.Level \in {LevelInfo, LevelErr, LevelDbg, LevelTrace}
      /\ (out[i].stream = "stderr") <=> (ev.op = "Error")

\* An Error dispatched by the default sink on an entry that holds a
\* buffered trace and so still has the Trace level before the call.
C17_Witness ==
  /\ ev.op = "Error"
  /\ ev.pre.Level = LevelTrace
  /\ Len(out) = 1
  /\ out[1].sink = "output"
  /\ out[1].stream = "stderr"

\* C18: FieldsRequest with a nil request, package-level or on an entry,
\* panics: no entry is returned or assigned, nothing is dispatched, and the
\* entry it was called on and the maps are as before.
C18_FieldsRequestNilPanics ==
  [][(/\ steps' = steps + 1
      /\ ev'.op = "FieldsRequest"
      /\ ev'.arg[1] = NilRequest)
     => /\ ev'.panicking
        /\ out' = <<>>
        /\ regs' = regs
        /\ arrs' = arrs
        /\ maps' = maps
        /\ ev'.ret = ev'.pre]_vars

\* l.FieldsRequest(nil) on an entry that has fields: it panicked and the
\* entry still has its fields.
C18_Witness ==
  /\ ev.op = "FieldsRequest"
  /\ ev.arg[1] = NilRequest
  /\ ev.src = Base
  /\ ev.panicking
  /\ DOMAIN ev.pre.Data = {"k"}
  /\ Now(Base) = ev.pre
  /\ out = <<>>

\* C19: after l.Context(ctx), the entry that every sink receives on a later
\* terminal call on l has ctx as its Ctx.
C19_ContextCarried ==
  (ev.op \in {"Print", "Error"} /\ gh[ev.src].ctx # NilCtx) =>
    /\ Len(out) = Len(ConfigOutputs)
    /\ \A i \in 1..Len(out) : out[i].entry.Ctx = gh[ev.src].ctx

\* The rendered fields of data in ascending byte-wise order of their keys.
RECURSIVE ByKey(_, _)
ByKey(data, keys) ==
  IF keys = {} THEN <<>>
  ELSE LET least == CHOOSE k \in keys :
                      \A j \in keys \ {k} : bytesLess(Bytes(k), Bytes(j))
       IN <<fieldItem(least, data[least]).text>> \o ByKey(data, keys \ {least})

\* C20: the line Print writes for an entry with fields ends with the fields
\* inside {...} in ascending lexicographic order of their keys, a key
\* before every longer key that starts with it.
C20_FieldsInKeyOrder ==
  (ev.op = "Print" /\ Len(out) = 1 /\ DOMAIN out[1].entry.Data # {}) =>
    out[1].text =
      formatLine([out[1].entry EXCEPT !.Data = EmptyF], clock)
      \o " {" \o Join(ByKey(out[1].entry.Data, DOMAIN out[1].entry.Data), " ") \o "}"

\* The module path as the line shows it: every name followed by ": ".
RECURSIVE PathPrefix(_)
PathPrefix(ms) == IF Len(ms) = 0 THEN "" ELSE Head(ms) \o ": " \o PathPrefix(Tail(ms))

\* C21: on a chain whose every result was assigned back, the modules of the
\* entry are the names given to Module, in call order, whatever other chain
\* calls came in between, and the line Print writes shows them in that
\* order, each followed by ": ", between the time and the level.
C21_ModulePathInCallOrder ==
  /\ \A r \in Regs : gh[r].linear => Now(r).Modules = gh[r].mods
  /\ (ev.op = "Print" /\ gh[ev.src].linear) =>
       /\ Len(out) = 1
       /\ out[1].text =
            colors(LevelInfo) \o FmtTime(clock) \o PathPrefix(gh[ev.src].mods)
            \o "INFO: " \o ev.arg[1]

\* Print on Module("a").Module("b") with one more chain call in between.
C21_Witness ==
  /\ ev.op = "Print"
  /\ gh[ev.src].linear
  /\ gh[ev.src].mods = <<"a", "b">>
  /\ steps = 3
  /\ Len(out) = 1

\* C22: an entry derived from a base by one Module, SetDebug or Trace call
\* keeps the base's sequence followed by its own element when another
\* entry is derived from the same base afterwards: the modules, debug
\* modules and traces of every register are those of the calls that made
\* it, and Error replays the traces of the entry it is called on.
C22_ForksIndependent ==
  /\ \A r \in Regs :
       /\ Now(r).Modules = gh[r].mods
       /\ Now(r).DebugModules = gh[r].dbgs
       /\ Now(r).Traces = gh[r].traces
  /\ (ev.op = "Error" /\ Len(out) = 1) =>
       out[1].text = Lines(gh[ev.src].traces)
                     \o formatLine([ev.pre EXCEPT !.Err = ev.arg, !.Level = LevelErr], clock)

\* C23: when two units of work each derive an entry from the shared base
\* and print it, no container of the base is written by both, and in every
\* interleaving the entry a unit dispatches holds the base's fields,
\* modules, traces and since labels plus what that unit added.
C23_UnitsIsolated ==
  /\ gh[Other].wrote \cap gh[Third].wrote = {}
  /\ (ev.op = "UnitPrint" /\ Len(out) = 1) =>
       LET v == out[1].entry
           g == gh[ev.src]
       IN /\ v.Data = g.fields
          /\ v.Modules = g.mods
          /\ v.Traces = g.traces
          /\ DOMAIN v.sinceLog = g.labels

\* C24: Trace and Tracef on an entry in debug mode return an entry whose
\* message is empty; on an entry not in debug mode they return the operand
\* with one more trace and no other difference.
C24_TraceResult ==
  ev.op = "Trace" =>
    IF InDebug(ev.pre)
    THEN ev.ret.Msg = ""
    ELSE /\ Len(ev.ret.Traces) = Len(ev.pre.Traces) + 1
         /\ ev.ret = [ev.pre EXCEPT !.Traces = ev.ret.Traces]

C26_SinceRecordsAlways ==
  ev.op = "Since" =>
    LET lb == ev.arg[1] IN
    /\ lb \in DOMAIN ev.ret.sinceLog
    /\ ev.ret.sinceLog[lb] \in MsVals
    /\ \A k \in DOMAIN ev.pre.sinceLog \ {lb} :
         k \in DOMAIN ev.ret.sinceLog /\ ev.ret.sinceLog[k] = ev.pre.sinceLog[k]
    /\ out = <<>>
    /\ IF InDebug(ev.pre)
       THEN /\ Len(errw) = 1
            /\ errw[1].msg = lb
            /\ errw[1].path = Join(ev.pre.Modules, ":")
            /\ StrV(ToString(errw[1].ms) \o "ms") = ev.ret.sinceLog[lb]
       ELSE errw = <<>>

\* A Since on an entry that is not in debug mode: recorded, nothing written.
C26_Witness ==
  /\ ev.op = "Since"
  /\ ~InDebug(ev.pre)
  /\ ev.pre.Modules # <<>>
  /\ ev.pre.sinceLog = EmptyF
  /\ DOMAIN ev.ret.sinceLog = {"s1"}
  /\ errw = <<>>

\* C27: Error does not consume the buffered traces.  On a chain whose
\* every result was assigned back, each of several successive Error calls
\* on the entry writes all the trace lines buffered since the last
\* ResetTrace before its error line, and the entry still holds them after
\* the call.
C27_ErrorKeepsTraces ==
  (ev.op = "ErrorThen" /\ gh[ev.src].linear) =>
    /\ Len(out) = 1
    /\ out[1].stream = "stderr"
    /\ out[1].text =
         Lines(gh[ev.src].traces)
         \o formatLine([ev.pre EXCEPT !.Err = ev.arg, !.Level = LevelErr], clock)
    /\ Now(ev.src).Traces = gh[ev.src].traces

\* The second of two successive Error calls on an entry with two traces.
C27_Witness ==
  /\ ev.op = "ErrorThen"
  /\ gh[ev.src].linear
  /\ gh[ev.src].errs = 2
  /\ Len(gh[ev.src].traces) = 2
  /\ Len(out) = 1

\* C28: the body of the line an Error call writes comes from the argument
\* of that call alone: the line is what format gives for the entry with
\* the error of the call and no message, also when the error is nil.
C28_ErrorBodyFromArgument ==
  (ev.op = "Error" /\ Len(out) = 1) =>
    out[1].text =
      Lines(ev.pre.Traces)
      \o formatLine([ev.pre EXCEPT !.Msg = "", !.Err = ev.arg, !.Level = LevelErr], clock)

\* C29: the fields and the since log of an entry are separate containers
\* after any chain calls, FieldsSince among them: a Field or Fields call
\* returns an entry with the since log of its operand, and a Since call
\* returns an entry with the fields of its operand.
C29_FieldsAndSinceLogSeparate ==
  /\ ev.op \in {"Field", "Fields"} => ev.ret.sinceLog = ev.pre.sinceLog
  /\ ev.op = "Since" => ev.ret.Data = ev.pre.Data

\* C30: the library never writes to a map supplied by the caller.  The map
\* that a Fields call stored in an entry (the package-level Fields, or
\* Fields on an entry without fields) has, after any later calls, the keys
\* and values it had when it was passed in.
C30_CallerMapUntouched ==
  \A r \in Regs :
    gh[r].caller.ref # NilMap => maps[gh[r].caller.ref] = gh[r].caller.c

====
